---- MODULE Spec2Model ----
(***************************************************************************)
(* GATK quality score recalibration driver of bcbio                        *)
(* (nextgen/bcbio/variation/recalibrate.py): the driver gatk_recalibrate,  *)
(* its two stages _gatk_base_recalibrator and _gatk_recalibrate, the       *)
(* availability probe _recal_available and the downsample estimator        *)
(* _get_downsample_pct, over a file system of named files.                 *)
(*                                                                         *)
(* A file is a sequence of lines (blocks for binary files), a line a       *)
(* sequence of one-character strings.  A path is the pair os.path.splitext *)
(* yields, [root, ext]; the file system is keyed by the joined string.     *)
(***************************************************************************)
EXTENDS Integers, Sequences, FiniteSets, TLC

\* ------------------------------------------------------------------ bounds

\* Driver runs on the same input within one behaviour.
MaxRuns == 3
\* Lines of a covariate table handed to the availability probe on its own.
MaxLines == 3
\* Contigs in the idxstats answer handed to the downsample estimator on its own.
MaxContigs == 2
\* Read groups in the header handed to the downsample estimator on its own.
MaxRGs == 3

\* --------------------------------------------------------- values and text

None == "<None>"
NoPath == [root |-> "", ext |-> ""]
\* A key the configuration does not hold.
Absent == "<absent>"

PathStr(p) == p.root \o p.ext

\* os.path.splitext(p)[0]
SplitextRoot(p) == p.root

StartsWith(line, prefix) ==
    /\ Len(line) >= Len(prefix)
    /\ SubSeq(line, 1, Len(prefix)) = prefix

\* Python truthiness of an optional string argument (None and "" are false).
Truthy(x) == x # None /\ x # ""

RECURSIVE Sum(_)
Sum(s) == IF s = <<>> THEN 0 ELSE Head(s) + Sum(Tail(s))

RECURSIVE GCD(_, _)
GCD(a, b) == IF b = 0 THEN a ELSE GCD(b, a % b)

Max(a, b) == IF a >= b THEN a ELSE b

\* The lines of covariate tables.
CommentLine == <<"#", ":", "\n">>
HeaderLine == <<"R", "G", "\n">>
DataLine == <<"r", "1", "\n">>
EOFLine == <<"E", "O", "F", "\n">>
\* "# No aligned reads", written without a line terminator.
NoAlignedReadsLine ==
    <<"#", " ", "N", "o", " ", "a", "l", "i", "g", "n", "e", "d", " ",
      "r", "e", "a", "d", "s">>

\* ------------------------------------------------------------- file system

Exists(files, name) == name \in DOMAIN files

WriteFile(files, name, content) ==
    [n \in DOMAIN files \cup {name} |-> IF n = name THEN content ELSE files[n]]

RemoveFile(files, name) == [n \in DOMAIN files \ {name} |-> files[n]]

\* bcbio.utils.file_exists
file_exists(files, p) == Exists(files, PathStr(p))

\* ------------------------------------------------------ availability probe

\* The while loop of _recal_available: the index of the first line from i on
\* that does not start with "#", or 0 when in_handle.next() runs off the end
\* of the file (StopIteration).
RECURSIVE SkipComments(_, _)
SkipComments(lines, i) ==
    IF i > Len(lines) THEN 0
    ELSE IF ~StartsWith(lines[i], <<"#">>) THEN i
    ELSE SkipComments(lines, i + 1)

\* The probe testing the first line after the comments, not the one after it.
_recal_available_first_line(files, recal_file) ==
    IF Exists(files, PathStr(recal_file))
    THEN LET lines == files[PathStr(recal_file)]
             i == SkipComments(lines, 1)
         IN IF i = 0 THEN "StopIteration"
            ELSE IF lines[i] # <<>> /\ ~StartsWith(lines[i], <<"E", "O", "F">>)
                 THEN "True"
                 ELSE "False"
    ELSE "False"

\* _recal_available(recal_file): "True", "False", or the exception it raises.

_recal_available(files, recal_file) ==
    IF Exists(files, PathStr(recal_file))
    THEN LET lines == files[PathStr(recal_file)]
             i == SkipComments(lines, 1)
         IN IF i = 0 THEN "StopIteration"
            ELSE IF i + 1 > Len(lines) THEN "StopIteration"
            ELSE LET test_line == lines[i + 1]
                 IN IF test_line # <<>> /\ ~StartsWith(test_line, <<"E", "O", "F">>)
                    THEN "True"
                    ELSE "False"
    ELSE "False"

\* ----------------------------------------------------- downsample estimator

\* 50 million reads per read group.
target_counts == 50000000

\* float(a) / float(b), kept exact as a fraction in lowest terms.
Fraction(a, b) ==
    LET g == GCD(a, b) IN [num |-> a \div g, den |-> b \div g]

\* The read groups a header declares.
RGs(n) == [i \in 1..n |-> "rg" \o ToString(i)]

\* An alignment header with and without a read-group section.
Header(rgs) == [k \in {"HD", "RG"} |-> IF k = "RG" THEN rgs ELSE <<"VN:1.0">>]
HeaderNoRG == [k \in {"HD"} |-> <<"VN:1.0">>]

\* _get_downsample_pct, given the picard_idxstats answer (aligned reads per
\* contig) and the header of in_bam: [exc, value], value <<>> for None and
\* <<fraction>> otherwise.
_get_downsample_pct_ge(idxstats, header) ==
    LET total == Sum(idxstats)
    IN IF "RG" \notin DOMAIN header
       THEN [exc |-> "KeyError", value |-> <<>>]
       ELSE LET n_rgs == Max(1, Len(header["RG"]))
                rg_target == n_rgs * target_counts
            IN IF total >= rg_target
               THEN [exc |-> "", value |-> <<Fraction(rg_target, total)>>]
               ELSE [exc |-> "", value |-> <<>>]

_get_downsample_pct(idxstats, header) ==
    LET total == Sum(idxstats)
    IN IF "RG" \notin DOMAIN header
       THEN [exc |-> "KeyError", value |-> <<>>]
       ELSE LET n_rgs == Max(1, Len(header["RG"]))
                rg_target == n_rgs * target_counts
            IN IF total > rg_target
               THEN [exc |-> "", value |-> <<Fraction(rg_target, total)>>]
               ELSE [exc |-> "", value |-> <<>>]

\* "if downsample_pct:" (None and 0.0 are false).
FractionTruthy(v) == v # <<>> /\ v[1].num # 0

\* str(downsample_pct)
FractionStr(v) == ToString(v[1].num) \o "/" \o ToString(v[1].den)

\* ------------------------------------------------------------------- state

VARIABLES
    fs,              \* the file system: file name -> content
    config,          \* configuration, runner capability and snp_file argument
    bam,             \* what the collaborators report of the alignment file
    runs,            \* driver runs started so far
    pc,              \* the driver's position
    exc,             \* the exception in flight ("" for none)
    stage,           \* the stage executing (0 in the driver itself)
    trace,           \* the calls of the current run, in order
    calls,           \* the toolkit invocations of the current run
    dup_align_bam,   \* gatk_recalibrate's local
    recal_file,      \* the path Stage 1 returned
    recal_bam,       \* the path Stage 2 returned
    result,          \* the driver's return value
    pre1,            \* Stage 1's output as found at invocation
    pre2,            \* Stage 2's output as found at invocation
    downsample_pct,  \* Stage 1's local
    usable,          \* the answer of the availability probe ("" before it ran)
    gatk_ok,         \* per stage, toolkit invocations that succeeded, all runs
    copies,          \* completed copies of Stage 2, all runs
    lastFailed,      \* the stage whose failure ended the last failed run
    firstExec        \* the first stage of this run that did not skip

vars == <<fs, config, bam, runs, pc, exc, stage, trace, calls, dup_align_bam,
          recal_file, recal_bam, result, pre1, pre2, downsample_pct, usable,
          gatk_ok, copies, lastFailed, firstExec>>

input == <<config, bam>>
locals == <<dup_align_bam, recal_file, recal_bam, result, pre1, pre2,
            downsample_pct, usable>>
history == <<gatk_ok, copies, lastFailed, firstExec>>

\* ------------------------------------------------------ names and contents

align_bam == [root |-> "sample", ext |-> ".bam"]
ref_file == [root |-> "ref", ext |-> ".fa"]
\* The file picard_mark_duplicates returns.
MarkedBam(p) == [root |-> SplitextRoot(p) \o "-dup", ext |-> ".bam"]

\* "%s.grp" % os.path.splitext(dup_align_bam)[0]
Stage1OutFile(p) == [root |-> SplitextRoot(p), ext |-> ".grp"]
\* "%s-plots.pdf" % os.path.splitext(dup_align_bam)[0]
PlotFile(p) == [root |-> SplitextRoot(p) \o "-plots", ext |-> ".pdf"]
\* "%s-gatkrecal.bam" % os.path.splitext(dup_align_bam)[0]
Stage2OutFile(p) == [root |-> SplitextRoot(p) \o "-gatkrecal", ext |-> ".bam"]

\* The temporary path file_transaction yields for a target.
TxFile(p) == [root |-> "tx/" \o p.root, ext |-> p.ext]
\* The directory curdir_tmpdir yields.
TmpDir == "tmp/tmpdir"

AlignContent == << <<"b", "1">>, <<"b", "2">> >>
MarkedContent == << <<"d", "1">>, <<"d", "2">> >>
RecalContent == << <<"q", "1">>, <<"q", "2">> >>
PlotContent == << <<"%", "P", "D", "F">> >>

\* The covariate tables the toolkit may produce: with data, with a column
\* header only, and with the end-of-data marker right after the comments.
ToolkitTables ==
    { <<CommentLine, HeaderLine, DataLine, EOFLine>>,
      <<CommentLine, HeaderLine, EOFLine>>,
      <<CommentLine, EOFLine>> }

\* What the toolkit has on disk while it is still writing.
Partial(content) == SubSeq(content, 1, 1)

NoSnapshot == [called |-> FALSE, existed |-> FALSE, content |-> <<>>]
Snapshot(files, p) ==
    [called |-> TRUE,
     existed |-> Exists(files, PathStr(p)),
     content |-> IF Exists(files, PathStr(p)) THEN files[PathStr(p)] ELSE <<>>]

Ev(s, e, a) == [stage |-> s, ev |-> e, arg |-> a]

\* ------------------------------------------------------ toolkit parameters

HasArg(params, key) == \E i \in 1..Len(params) : params[i] = key

ArgAfter(params, key) ==
    params[(CHOOSE i \in 1..(Len(params) - 1) : params[i] = key) + 1]

\* The file the toolkit writes its result to.
OutArg(params) ==
    IF HasArg(params, "-o") THEN ArgAfter(params, "-o") ELSE ArgAfter(params, "--out")

IntervalArgs(intervals) ==
    IF Truthy(intervals)
    THEN <<"-L", intervals, "--interval_set_rule", "INTERSECTION">>
    ELSE <<>>

\* Stage 1 hands the toolkit the target itself, not the transaction's file.
Stage1ParamsDirect(dup, ref, tx_out_file, plot_file, pct, gatk_full, snp_file, intervals) ==
    <<"-T", "BaseRecalibrator",
      "-o", PathStr([root |-> SplitextRoot(dup), ext |-> ".grp"]),
      "--plot_pdf_file", PathStr(plot_file),
      "-I", PathStr(dup),
      "-R", PathStr(ref)>>
    \o IntervalArgs(intervals)

\* Stage 1 passing the fraction without the downsampling mode.
Stage1ParamsNoMode(dup, ref, tx_out_file, plot_file, pct, gatk_full, snp_file, intervals) ==
    <<"-T", "BaseRecalibrator",
      "-o", PathStr(tx_out_file),
      "--plot_pdf_file", PathStr(plot_file),
      "-I", PathStr(dup),
      "-R", PathStr(ref)>>
    \o (IF FractionTruthy(pct)
        THEN <<"--downsample_to_fraction", FractionStr(pct)>>
        ELSE <<>>)
    \o (IF ~gatk_full THEN <<"--disable_indel_quals">> ELSE <<>>)
    \o (IF Truthy(snp_file) THEN <<"--knownSites", snp_file>> ELSE <<>>)
    \o IntervalArgs(intervals)

\* params of _gatk_base_recalibrator
Stage1Params(dup, ref, tx_out_file, plot_file, pct, gatk_full, snp_file, intervals) ==
    <<"-T", "BaseRecalibrator",
      "-o", PathStr(tx_out_file),
      "--plot_pdf_file", PathStr(plot_file),
      "-I", PathStr(dup),
      "-R", PathStr(ref)>>
    \o (IF FractionTruthy(pct)
        THEN <<"--downsample_to_fraction", FractionStr(pct),
               "--downsampling_type", "ALL_READS">>
        ELSE <<>>)
    \o (IF ~gatk_full THEN <<"--disable_indel_quals">> ELSE <<>>)
    \o (IF Truthy(snp_file) THEN <<"--knownSites", snp_file>> ELSE <<>>)
    \o IntervalArgs(intervals)

\* Stage 2 without the interval restriction.
Stage2ParamsNoIntervals(dup, ref, recal, tx_out_file, intervals) ==
    <<"-T", "PrintReads",
      "-BQSR", PathStr(recal),
      "-R", PathStr(ref),
      "-I", PathStr(dup),
      "--out", PathStr(tx_out_file)>>

\* params of _gatk_recalibrate
Stage2Params(dup, ref, recal, tx_out_file, intervals) ==
    <<"-T", "PrintReads",
      "-BQSR", PathStr(recal),
      "-R", PathStr(ref),
      "-I", PathStr(dup),
      "--out", PathStr(tx_out_file)>>
    \o IntervalArgs(intervals)

\* A stage without its existence check.
Stage1SkipsNever(files, out_file) == FALSE
Stage2SkipsNever(files, out_file) == FALSE

\* "if not file_exists(out_file)" of each stage: TRUE when the stage skips.
Stage1Skips(files, out_file) == file_exists(files, out_file)
Stage2Skips(files, out_file) == file_exists(files, out_file)

\* realign.has_aligned_reads
has_aligned_reads(b) == Sum(b.idxstats) > 0

\* Stage 1 creates the marker file and writes nothing into it.
MarkerContentEmpty == <<>>

\* What Stage 1 writes when there are no aligned reads.
MarkerContent == <<NoAlignedReadsLine>>

\* The two branches of Stage 2 the wrong way round.
Stage2BranchSwapped(answer) == IF answer = "True" THEN "s2_copy" ELSE "s2_tmpdir"

\* "if _recal_available(recal_file): ... else: ..." of Stage 2.
Stage2Branch(answer) == IF answer = "True" THEN "s2_tmpdir" ELSE "s2_copy"

\* The duplicate-marking setting defaulting to off.
MarkDuplicatesDefaultOff(cfg) == cfg.mark_duplicates = "True"

\* config["algorithm"].get("mark_duplicates", True)
MarkDuplicatesSetting(cfg) ==
    IF cfg.mark_duplicates = Absent THEN TRUE ELSE cfg.mark_duplicates = "True"

\* -------------------------------------------------------------------- Init

Configs ==
    [mark_duplicates : {"True", "False", Absent},
     variant_regions : {None, "regions.bed"},
     snp_file : {None, "dbsnp.vcf"},
     has_gatk_full : BOOLEAN]

Bams ==
    [idxstats : {<<0, 0>>, <<40000000>>, <<100000000, 100000000>>},
     header : {HeaderNoRG} \cup { Header(RGs(n)) : n \in 0..2 }]

InitLocals ==
    /\ dup_align_bam = NoPath
    /\ recal_file = NoPath
    /\ recal_bam = NoPath
    /\ result = NoPath
    /\ pre1 = NoSnapshot
    /\ pre2 = NoSnapshot
    /\ downsample_pct = <<>>
    /\ usable = ""

Init ==
    /\ config \in Configs
    /\ bam \in Bams
    /\ fs = [n \in {PathStr(align_bam), PathStr(ref_file)} |->
                IF n = PathStr(align_bam) THEN AlignContent ELSE <<>>]
    /\ runs = 0
    /\ pc = "idle"
    /\ exc = ""
    /\ stage = 0
    /\ trace = <<>>
    /\ calls = <<>>
    /\ InitLocals
    /\ gatk_ok = [s \in {1, 2} |-> 0]
    /\ copies = 0
    /\ lastFailed = 0
    /\ firstExec = 0

\* ------------------------------------------------------------------ driver

\* An exception leaves gatk_recalibrate.
Raise(e) ==
    /\ pc' = "failed"
    /\ exc' = e
    /\ lastFailed' = IF stage # 0 THEN stage ELSE lastFailed

\* gatk_recalibrate is called (again) on the same input.
StartRun ==
    /\ pc \in {"idle", "done", "failed", "killed"}
    /\ runs < MaxRuns
    /\ runs' = runs + 1
    /\ pc' = "picard_index_ref"
    /\ exc' = ""
    /\ stage' = 0
    /\ trace' = <<>>
    /\ calls' = <<>>
    /\ dup_align_bam' = NoPath
    /\ recal_file' = NoPath
    /\ recal_bam' = NoPath
    /\ result' = NoPath
    /\ pre1' = NoSnapshot
    /\ pre2' = NoSnapshot
    /\ downsample_pct' = <<>>
    /\ usable' = ""
    /\ firstExec' = 0
    /\ UNCHANGED <<fs, input, gatk_ok, copies, lastFailed>>

\* broad_runner.run_fn("picard_index_ref", ref_file)
IndexRef ==
    /\ pc = "picard_index_ref"
    /\ trace' = Append(trace, Ev(0, "picard_index_ref", PathStr(ref_file)))
    /\ \E ok \in BOOLEAN :
          IF ok
          THEN /\ pc' = "mark_duplicates"
               /\ UNCHANGED <<exc, lastFailed>>
          ELSE Raise("PicardError")
    /\ UNCHANGED <<fs, input, runs, stage, calls, locals, gatk_ok, copies, firstExec>>

\* config["algorithm"].get("mark_duplicates", True) holds:
\* run_fn("picard_mark_duplicates", align_bam, remove_dups=True)
MarkDuplicates ==
    /\ pc = "mark_duplicates"
    /\ MarkDuplicatesSetting(config)
    /\ trace' = Append(trace, Ev(0, "picard_mark_duplicates", PathStr(align_bam)))
    /\ \E ok \in BOOLEAN :
          IF ok
          THEN /\ fs' = WriteFile(fs, PathStr(MarkedBam(align_bam)), MarkedContent)
               /\ dup_align_bam' = MarkedBam(align_bam)
               /\ pc' = "picard_index"
               /\ UNCHANGED <<exc, lastFailed>>
          ELSE /\ Raise("PicardError")
               /\ UNCHANGED <<fs, dup_align_bam>>
    /\ UNCHANGED <<input, runs, stage, calls, recal_file, recal_bam, result, pre1,
                   pre2, downsample_pct, usable, gatk_ok, copies, firstExec>>

\* mark_duplicates is off: dup_align_bam = align_bam
SkipMarkDuplicates ==
    /\ pc = "mark_duplicates"
    /\ ~MarkDuplicatesSetting(config)
    /\ dup_align_bam' = align_bam
    /\ pc' = "picard_index"
    /\ UNCHANGED <<fs, input, runs, exc, stage, trace, calls, recal_file, recal_bam,
                   result, pre1, pre2, downsample_pct, usable, history>>

\* The driver leaving out the indexing of the stages' input when both
\* outputs are already there.
IndexAlignShortCircuit ==
    /\ pc = "picard_index"
    /\ LET present == /\ Exists(fs, PathStr(Stage1OutFile(dup_align_bam)))
                      /\ Exists(fs, PathStr(Stage2OutFile(dup_align_bam)))
       IN /\ trace' = IF present THEN trace
                      ELSE Append(trace, Ev(0, "picard_index", PathStr(dup_align_bam)))
          /\ \E ok \in BOOLEAN :
                IF ok \/ present
                THEN /\ pc' = "stage1"
                     /\ UNCHANGED <<exc, lastFailed>>
                ELSE Raise("PicardError")
    /\ UNCHANGED <<fs, input, runs, stage, calls, locals, gatk_ok, copies, firstExec>>

\* broad_runner.run_fn("picard_index", dup_align_bam)
IndexAlign ==
    /\ pc = "picard_index"
    /\ trace' = Append(trace, Ev(0, "picard_index", PathStr(dup_align_bam)))
    /\ \E ok \in BOOLEAN :
          IF ok
          THEN /\ pc' = "stage1"
               /\ UNCHANGED <<exc, lastFailed>>
          ELSE Raise("PicardError")
    /\ UNCHANGED <<fs, input, runs, stage, calls, locals, gatk_ok, copies, firstExec>>

\* The last step indexing the stages' input again, not the recalibrated file.
IndexOutOfInput ==
    /\ pc = "index_out"
    /\ trace' = Append(trace, Ev(0, "picard_index", PathStr(dup_align_bam)))
    /\ \E ok \in BOOLEAN :
          IF ok
          THEN /\ pc' = "done"
               /\ result' = recal_bam
               /\ UNCHANGED <<exc, lastFailed>>
          ELSE /\ Raise("PicardError")
               /\ UNCHANGED result
    /\ UNCHANGED <<fs, input, runs, stage, calls, dup_align_bam, recal_file, recal_bam,
                   pre1, pre2, downsample_pct, usable, gatk_ok, copies, firstExec>>

\* broad_runner.run_fn("picard_index", recal_bam); return recal_bam
IndexOut ==
    /\ pc = "index_out"
    /\ trace' = Append(trace, Ev(0, "picard_index", PathStr(recal_bam)))
    /\ \E ok \in BOOLEAN :
          IF ok
          THEN /\ pc' = "done"
               /\ result' = recal_bam
               /\ UNCHANGED <<exc, lastFailed>>
          ELSE /\ Raise("PicardError")
               /\ UNCHANGED result
    /\ UNCHANGED <<fs, input, runs, stage, calls, dup_align_bam, recal_file, recal_bam,
                   pre1, pre2, downsample_pct, usable, gatk_ok, copies, firstExec>>

\* ------------------------------------- transaction, temporary dir, toolkit

\* file_transaction(target): entered, left normally, left by an exception.
TxEnter(files, target) == RemoveFile(files, PathStr(TxFile(target)))

TxCommit(files, target) ==
    IF Exists(files, PathStr(TxFile(target)))
    THEN RemoveFile(WriteFile(files, PathStr(target), files[PathStr(TxFile(target))]),
                    PathStr(TxFile(target)))
    ELSE files

TxRollback(files, target) == RemoveFile(files, PathStr(TxFile(target)))

\* curdir_tmpdir(): entered and left.
TmpEnter(files) == WriteFile(files, TmpDir, <<>>)
TmpExit(files) == RemoveFile(files, TmpDir)

\* broad_runner.run_gatk(params, tmp_dir): the toolkit opens its output, and
\* later either completes it or fails.
GatkResults(params) ==
    IF ArgAfter(params, "-T") = "BaseRecalibrator" THEN ToolkitTables ELSE {RecalContent}

GatkOpens(files, params) ==
    WriteFile(files, OutArg(params),
              IF ArgAfter(params, "-T") = "BaseRecalibrator"
              THEN <<CommentLine>>
              ELSE Partial(RecalContent))

GatkCompletes(files, params, content) ==
    LET written == WriteFile(files, OutArg(params), content)
    IN IF HasArg(params, "--plot_pdf_file")
       THEN WriteFile(written, ArgAfter(params, "--plot_pdf_file"), PlotContent)
       ELSE written

GatkFails(files, params, plotted) ==
    IF plotted /\ HasArg(params, "--plot_pdf_file")
    THEN WriteFile(files, ArgAfter(params, "--plot_pdf_file"), <<>>)
    ELSE files

\* ----------------------------------------------------------------- Stage 1

\* _gatk_base_recalibrator is entered: out_file, file_exists, has_aligned_reads
Stage1Enter ==
    /\ pc = "stage1"
    /\ LET out_file == Stage1OutFile(dup_align_bam)
           checked == Append(trace, Ev(1, "file_exists", PathStr(out_file)))
       IN /\ pre1' = Snapshot(fs, out_file)
          /\ IF Stage1Skips(fs, out_file)
             THEN /\ trace' = checked
                  /\ recal_file' = out_file
                  /\ stage' = 0
                  /\ pc' = "stage2"
                  /\ UNCHANGED firstExec
             ELSE /\ trace' = Append(checked,
                                     Ev(1, "has_aligned_reads", PathStr(dup_align_bam)))
                  /\ stage' = 1
                  /\ firstExec' = IF firstExec = 0 THEN 1 ELSE firstExec
                  /\ pc' = IF has_aligned_reads(bam) THEN "s1_tmpdir" ELSE "s1_open"
                  /\ UNCHANGED recal_file
    /\ UNCHANGED <<fs, input, runs, exc, calls, dup_align_bam, recal_bam, result, pre2,
                   downsample_pct, usable, gatk_ok, copies, lastFailed>>

\* with curdir_tmpdir() as tmp_dir
S1Tmpdir ==
    /\ pc = "s1_tmpdir"
    /\ fs' = TmpEnter(fs)
    /\ trace' = Append(trace, Ev(1, "curdir_tmpdir", TmpDir))
    /\ pc' = "s1_tx"
    /\ UNCHANGED <<input, runs, exc, stage, calls, locals, history>>

\* with file_transaction(out_file) as tx_out_file
S1TxOpen ==
    /\ pc = "s1_tx"
    /\ fs' = TxEnter(fs, Stage1OutFile(dup_align_bam))
    /\ trace' = Append(trace, Ev(1, "file_transaction",
                                 PathStr(Stage1OutFile(dup_align_bam))))
    /\ pc' = "s1_downsample"
    /\ UNCHANGED <<input, runs, exc, stage, calls, locals, history>>

\* A failing estimator leaving Stage 1 at once, past both "with" blocks.
S1DownsampleNoUnwind ==
    /\ pc = "s1_downsample"
    /\ trace' = Append(trace, Ev(1, "_get_downsample_pct", PathStr(dup_align_bam)))
    /\ \E ok \in BOOLEAN :
          IF ok
          THEN LET r == _get_downsample_pct(bam.idxstats, bam.header)
               IN /\ downsample_pct' = r.value
                  /\ IF r.exc = ""
                     THEN /\ pc' = "s1_gatk"
                          /\ UNCHANGED <<exc, lastFailed>>
                     ELSE Raise(r.exc)
          ELSE /\ Raise("PicardError")
               /\ UNCHANGED downsample_pct
    /\ UNCHANGED <<fs, input, runs, stage, calls, dup_align_bam, recal_file, recal_bam,
                   result, pre1, pre2, usable, gatk_ok, copies, firstExec>>

\* downsample_pct = _get_downsample_pct(broad_runner, dup_align_bam)
S1Downsample ==
    /\ pc = "s1_downsample"
    /\ trace' = Append(trace, Ev(1, "_get_downsample_pct", PathStr(dup_align_bam)))
    /\ \E ok \in BOOLEAN :
          IF ok
          THEN LET r == _get_downsample_pct(bam.idxstats, bam.header)
               IN /\ exc' = r.exc
                  /\ downsample_pct' = r.value
                  /\ pc' = IF r.exc = "" THEN "s1_gatk" ELSE "s1_tx_exit"
          ELSE /\ exc' = "PicardError"
               /\ pc' = "s1_tx_exit"
               /\ UNCHANGED downsample_pct
    /\ UNCHANGED <<fs, input, runs, stage, calls, dup_align_bam, recal_file, recal_bam,
                   result, pre1, pre2, usable, history>>

\* params are built and broad_runner.run_gatk(params, tmp_dir) starts
S1GatkStart ==
    /\ pc = "s1_gatk"
    /\ LET params == Stage1Params(dup_align_bam, ref_file,
                                  TxFile(Stage1OutFile(dup_align_bam)),
                                  PlotFile(dup_align_bam), downsample_pct,
                                  config.has_gatk_full, config.snp_file,
                                  config.variant_regions)
       IN /\ calls' = Append(calls, [stage |-> 1, params |-> params, tmp_dir |-> TmpDir])
          /\ trace' = Append(trace, Ev(1, "run_gatk", OutArg(params)))
          /\ fs' = GatkOpens(fs, params)
    /\ pc' = "s1_gatk_run"
    /\ UNCHANGED <<input, runs, exc, stage, locals, history>>

\* run_gatk returns or raises
S1GatkEnd ==
    /\ pc = "s1_gatk_run"
    /\ LET params == calls[Len(calls)].params
       IN \/ /\ \E content \in GatkResults(params) :
                   fs' = GatkCompletes(fs, params, content)
             /\ gatk_ok' = [gatk_ok EXCEPT ![1] = @ + 1]
             /\ UNCHANGED exc
          \/ /\ \E plotted \in BOOLEAN : fs' = GatkFails(fs, params, plotted)
             /\ exc' = "GatkError"
             /\ UNCHANGED gatk_ok
    /\ pc' = "s1_tx_exit"
    /\ UNCHANGED <<input, runs, stage, trace, calls, locals, copies, lastFailed,
                   firstExec>>

\* the file_transaction block is left
S1TxExit ==
    /\ pc = "s1_tx_exit"
    /\ LET out_file == Stage1OutFile(dup_align_bam)
       IN IF exc = ""
          THEN /\ fs' = TxCommit(fs, out_file)
               /\ trace' = Append(trace, Ev(1, "commit", PathStr(out_file)))
          ELSE /\ fs' = TxRollback(fs, out_file)
               /\ trace' = Append(trace, Ev(1, "rollback", PathStr(out_file)))
    /\ pc' = "s1_tmp_exit"
    /\ UNCHANGED <<input, runs, exc, stage, calls, locals, history>>

\* Stage 1 swallowing the exception and returning out_file all the same.
S1TmpExitSwallow ==
    /\ pc = "s1_tmp_exit"
    /\ fs' = TmpExit(fs)
    /\ trace' = Append(trace, Ev(1, "rmtree", TmpDir))
    /\ recal_file' = Stage1OutFile(dup_align_bam)
    /\ stage' = 0
    /\ pc' = "stage2"
    /\ UNCHANGED <<input, runs, exc, calls, dup_align_bam, recal_bam, result, pre1, pre2,
                   downsample_pct, usable, history>>

\* the curdir_tmpdir block is left; return out_file, or the exception goes on
S1TmpExit ==
    /\ pc = "s1_tmp_exit"
    /\ fs' = TmpExit(fs)
    /\ trace' = Append(trace, Ev(1, "rmtree", TmpDir))
    /\ IF exc = ""
       THEN /\ recal_file' = Stage1OutFile(dup_align_bam)
            /\ stage' = 0
            /\ pc' = "stage2"
            /\ lastFailed' = IF lastFailed = 1 THEN 0 ELSE lastFailed
            /\ UNCHANGED exc
       ELSE /\ Raise(exc)
            /\ UNCHANGED <<recal_file, stage>>
    /\ UNCHANGED <<input, runs, calls, dup_align_bam, recal_bam, result, pre1, pre2,
                   downsample_pct, usable, gatk_ok, copies, firstExec>>

\* with open(out_file, "w") as out_handle
S1Open ==
    /\ pc = "s1_open"
    /\ fs' = WriteFile(fs, PathStr(Stage1OutFile(dup_align_bam)), <<>>)
    /\ trace' = Append(trace, Ev(1, "open", PathStr(Stage1OutFile(dup_align_bam))))
    /\ pc' = "s1_write"
    /\ UNCHANGED <<input, runs, exc, stage, calls, locals, history>>

\* out_handle.write("# No aligned reads"), the file is closed; return out_file
S1Write ==
    /\ pc = "s1_write"
    /\ fs' = WriteFile(fs, PathStr(Stage1OutFile(dup_align_bam)), MarkerContent)
    /\ trace' = Append(trace, Ev(1, "write", PathStr(Stage1OutFile(dup_align_bam))))
    /\ recal_file' = Stage1OutFile(dup_align_bam)
    /\ stage' = 0
    /\ pc' = "stage2"
    /\ lastFailed' = IF lastFailed = 1 THEN 0 ELSE lastFailed
    /\ UNCHANGED <<input, runs, exc, calls, dup_align_bam, recal_bam, result, pre1, pre2,
                   downsample_pct, usable, gatk_ok, copies, firstExec>>

\* ----------------------------------------------------------------- Stage 2

\* _gatk_recalibrate is entered: out_file, file_exists
Stage2Enter ==
    /\ pc = "stage2"
    /\ LET out_file == Stage2OutFile(dup_align_bam)
       IN /\ pre2' = Snapshot(fs, out_file)
          /\ trace' = Append(trace, Ev(2, "file_exists", PathStr(out_file)))
          /\ IF Stage2Skips(fs, out_file)
             THEN /\ recal_bam' = out_file
                  /\ stage' = 0
                  /\ pc' = "index_out"
                  /\ UNCHANGED firstExec
             ELSE /\ stage' = 2
                  /\ firstExec' = IF firstExec = 0 THEN 2 ELSE firstExec
                  /\ pc' = "s2_probe"
                  /\ UNCHANGED recal_bam
    /\ UNCHANGED <<fs, input, runs, exc, calls, dup_align_bam, recal_file, result, pre1,
                   downsample_pct, usable, gatk_ok, copies, lastFailed>>

\* if _recal_available(recal_file)
S2Probe ==
    /\ pc = "s2_probe"
    /\ LET answer == _recal_available(fs, recal_file)
       IN /\ usable' = answer
          /\ trace' = Append(trace, Ev(2, "_recal_available", PathStr(recal_file)))
          /\ IF answer \in {"True", "False"}
             THEN /\ pc' = Stage2Branch(answer)
                  /\ UNCHANGED <<exc, lastFailed>>
             ELSE Raise(answer)
    /\ UNCHANGED <<fs, input, runs, stage, calls, dup_align_bam, recal_file, recal_bam,
                   result, pre1, pre2, downsample_pct, gatk_ok, copies, firstExec>>

\* with curdir_tmpdir() as tmp_dir
S2Tmpdir ==
    /\ pc = "s2_tmpdir"
    /\ fs' = TmpEnter(fs)
    /\ trace' = Append(trace, Ev(2, "curdir_tmpdir", TmpDir))
    /\ pc' = "s2_tx"
    /\ UNCHANGED <<input, runs, exc, stage, calls, locals, history>>

\* with file_transaction(out_file) as tx_out_file
S2TxOpen ==
    /\ pc = "s2_tx"
    /\ fs' = TxEnter(fs, Stage2OutFile(dup_align_bam))
    /\ trace' = Append(trace, Ev(2, "file_transaction",
                                 PathStr(Stage2OutFile(dup_align_bam))))
    /\ pc' = "s2_gatk"
    /\ UNCHANGED <<input, runs, exc, stage, calls, locals, history>>

\* params are built and broad_runner.run_gatk(params, tmp_dir) starts
S2GatkStart ==
    /\ pc = "s2_gatk"
    /\ LET params == Stage2Params(dup_align_bam, ref_file, recal_file,
                                  TxFile(Stage2OutFile(dup_align_bam)),
                                  config.variant_regions)
       IN /\ calls' = Append(calls, [stage |-> 2, params |-> params, tmp_dir |-> TmpDir])
          /\ trace' = Append(trace, Ev(2, "run_gatk", OutArg(params)))
          /\ fs' = GatkOpens(fs, params)
    /\ pc' = "s2_gatk_run"
    /\ UNCHANGED <<input, runs, exc, stage, locals, history>>

\* run_gatk returns or raises
S2GatkEnd ==
    /\ pc = "s2_gatk_run"
    /\ LET params == calls[Len(calls)].params
       IN \/ /\ \E content \in GatkResults(params) :
                   fs' = GatkCompletes(fs, params, content)
             /\ gatk_ok' = [gatk_ok EXCEPT ![2] = @ + 1]
             /\ UNCHANGED exc
          \/ /\ fs' = GatkFails(fs, params, FALSE)
             /\ exc' = "GatkError"
             /\ UNCHANGED gatk_ok
    /\ pc' = "s2_tx_exit"
    /\ UNCHANGED <<input, runs, stage, trace, calls, locals, copies, lastFailed,
                   firstExec>>

\* the file_transaction block is left
S2TxExit ==
    /\ pc = "s2_tx_exit"
    /\ LET out_file == Stage2OutFile(dup_align_bam)
       IN IF exc = ""
          THEN /\ fs' = TxCommit(fs, out_file)
               /\ trace' = Append(trace, Ev(2, "commit", PathStr(out_file)))
          ELSE /\ fs' = TxRollback(fs, out_file)
               /\ trace' = Append(trace, Ev(2, "rollback", PathStr(out_file)))
    /\ pc' = "s2_tmp_exit"
    /\ UNCHANGED <<input, runs, exc, stage, calls, locals, history>>

\* the curdir_tmpdir block is left; return out_file, or the exception goes on
S2TmpExit ==
    /\ pc = "s2_tmp_exit"
    /\ fs' = TmpExit(fs)
    /\ trace' = Append(trace, Ev(2, "rmtree", TmpDir))
    /\ IF exc = ""
       THEN /\ recal_bam' = Stage2OutFile(dup_align_bam)
            /\ stage' = 0
            /\ pc' = "index_out"
            /\ lastFailed' = IF lastFailed = 2 THEN 0 ELSE lastFailed
            /\ UNCHANGED exc
       ELSE /\ Raise(exc)
            /\ UNCHANGED <<recal_bam, stage>>
    /\ UNCHANGED <<input, runs, calls, dup_align_bam, recal_file, result, pre1, pre2,
                   downsample_pct, usable, gatk_ok, copies, firstExec>>

\* shutil.copy(dup_align_bam, out_file) has opened out_file and written a
\* first block of it
S2CopyStart ==
    /\ pc = "s2_copy"
    /\ fs' = WriteFile(fs, PathStr(Stage2OutFile(dup_align_bam)),
                       Partial(fs[PathStr(dup_align_bam)]))
    /\ trace' = Append(trace, Ev(2, "copy", PathStr(Stage2OutFile(dup_align_bam))))
    /\ pc' = "s2_copy_run"
    /\ UNCHANGED <<input, runs, exc, stage, calls, locals, history>>

\* shutil.copy returns; return out_file
S2CopyEnd ==
    /\ pc = "s2_copy_run"
    /\ fs' = WriteFile(fs, PathStr(Stage2OutFile(dup_align_bam)),
                       fs[PathStr(dup_align_bam)])
    /\ copies' = copies + 1
    /\ recal_bam' = Stage2OutFile(dup_align_bam)
    /\ stage' = 0
    /\ pc' = "index_out"
    /\ lastFailed' = IF lastFailed = 2 THEN 0 ELSE lastFailed
    /\ UNCHANGED <<input, runs, exc, trace, calls, dup_align_bam, recal_file, result,
                   pre1, pre2, downsample_pct, usable, gatk_ok, firstExec>>

\* ------------------------------------------------------------ termination

InRun == pc \notin {"idle", "done", "failed", "killed"}

\* The driving process is terminated: nothing more of the run executes, the
\* files stay as they are.
Terminate ==
    /\ InRun
    /\ pc' = "killed"
    /\ UNCHANGED <<fs, input, runs, exc, stage, trace, calls, locals, history>>

\* ---------------------------------------------------------- specifications

Stage1Next ==
    \/ Stage1Enter \/ S1Tmpdir \/ S1TxOpen \/ S1Downsample \/ S1GatkStart
    \/ S1GatkEnd \/ S1TxExit \/ S1TmpExit \/ S1Open \/ S1Write

Stage2Next ==
    \/ Stage2Enter \/ S2Probe \/ S2Tmpdir \/ S2TxOpen \/ S2GatkStart
    \/ S2GatkEnd \/ S2TxExit \/ S2TmpExit \/ S2CopyStart \/ S2CopyEnd

Next ==
    \/ StartRun \/ IndexRef \/ MarkDuplicates \/ SkipMarkDuplicates \/ IndexAlign
    \/ Stage1Next \/ Stage2Next \/ IndexOut

Spec == Init /\ [][Next]_vars

NextKill == Next \/ Terminate

SpecKill == Init /\ [][NextKill]_vars

\* -------------------------------------- the probe and the estimator alone

SeqsUpTo(S, n) == UNION { [1..m -> S] : m \in 0..n }

ProbeLines == {CommentLine, NoAlignedReadsLine, HeaderLine, DataLine, EOFLine}

\* Everything but the file system, the position and the answer stands still.
InitAlone ==
    /\ config \in {c \in Configs : c.mark_duplicates = "True" /\ c.has_gatk_full
                                   /\ c.variant_regions = None /\ c.snp_file = None}
    /\ runs = 0
    /\ stage = 0
    /\ trace = <<>>
    /\ calls = <<>>
    /\ dup_align_bam = align_bam
    /\ recal_bam = NoPath
    /\ result = NoPath
    /\ pre1 = NoSnapshot
    /\ pre2 = NoSnapshot
    /\ gatk_ok = [s \in {1, 2} |-> 0]
    /\ copies = 0
    /\ lastFailed = 0
    /\ firstExec = 0

\* _recal_available is handed a path that does not exist, or a table of up to
\* MaxLines lines.
InitProbe ==
    /\ InitAlone
    /\ bam \in {b \in Bams : b.idxstats = <<0, 0>> /\ b.header = HeaderNoRG}
    /\ recal_file = Stage1OutFile(align_bam)
    /\ \/ fs = [n \in {PathStr(align_bam)} |-> AlignContent]
       \/ \E lines \in SeqsUpTo(ProbeLines, MaxLines) :
             fs = [n \in {PathStr(align_bam), PathStr(recal_file)} |->
                      IF n = PathStr(align_bam) THEN AlignContent ELSE lines]
    /\ pc = "probe"
    /\ exc = ""
    /\ downsample_pct = <<>>
    /\ usable = ""

ProbeCall ==
    /\ pc = "probe"
    /\ usable' = _recal_available(fs, recal_file)
    /\ pc' = "probed"
    /\ UNCHANGED <<fs, input, runs, exc, stage, trace, calls, dup_align_bam, recal_file,
                   recal_bam, result, pre1, pre2, downsample_pct, history>>

SpecProbe == InitProbe /\ [][ProbeCall]_vars

ReadCounts == {0, 40000000, 50000000, 50000001, 60000000, 200000000}

\* _get_downsample_pct is handed the idxstats of up to MaxContigs contigs and
\* a header of up to MaxRGs read groups, or one without a read-group section.
InitDownsample ==
    /\ InitAlone
    /\ bam \in [idxstats : SeqsUpTo(ReadCounts, MaxContigs),
                header : {HeaderNoRG} \cup { Header(RGs(n)) : n \in 0..MaxRGs }]
    /\ recal_file = NoPath
    /\ fs = [n \in {PathStr(align_bam)} |-> AlignContent]
    /\ pc = "estimate"
    /\ exc = ""
    /\ downsample_pct = <<>>
    /\ usable = ""

EstimateCall ==
    /\ pc = "estimate"
    /\ LET r == _get_downsample_pct(bam.idxstats, bam.header)
       IN /\ exc' = r.exc
          /\ downsample_pct' = r.value
    /\ pc' = "estimated"
    /\ UNCHANGED <<fs, input, runs, stage, trace, calls, dup_align_bam, recal_file,
                   recal_bam, result, pre1, pre2, usable, history>>

SpecDownsample == InitDownsample /\ [][EstimateCall]_vars

\* ------------------------------------------------------------- properties

\* The input of the stages, as the configuration decides it.
DupBam == IF config.mark_duplicates = "False" THEN align_bam ELSE MarkedBam(align_bam)
Out1 == PathStr(Stage1OutFile(DupBam))
Out2 == PathStr(Stage2OutFile(DupBam))

\* What a stage did in this run.
StageEvents(s) == { trace[i].ev : i \in { j \in 1..Len(trace) : trace[j].stage = s } }
StageCalls(s) == { i \in 1..Len(calls) : calls[i].stage = s }

\* C1: a stage that finds its output at invocation invokes no toolkit, writes
\* no marker, copies nothing, does not run the availability probe, leaves the
\* output as it found it and returns the output path.
C1_IdempotentSkip ==
    /\ (pre1.called /\ pre1.existed) =>
          /\ StageEvents(1) \subseteq {"file_exists"}
          /\ StageCalls(1) = {}
          /\ Exists(fs, Out1) /\ fs[Out1] = pre1.content
          /\ recal_file = Stage1OutFile(dup_align_bam)
    /\ (pre2.called /\ pre2.existed) =>
          /\ StageEvents(2) \subseteq {"file_exists"}
          /\ StageCalls(2) = {}
          /\ Exists(fs, Out2) /\ fs[Out2] = pre2.content
          /\ recal_bam = Stage2OutFile(dup_align_bam)

\* Both stages were invoked with their outputs present.
C1_Witness ==
    /\ pre1.called /\ pre1.existed
    /\ pre2.called /\ pre2.existed
    /\ pc = "done"

\* C2: the toolkit is only ever given the transaction's temporary path, and
\* when its invocation fails in a stage whose output did not exist, the output
\* path is absent once the stage has exited.
C2_AtomicOnToolkitFailure ==
    /\ \A i \in 1..Len(calls) :
          OutArg(calls[i].params) =
             PathStr(TxFile(IF calls[i].stage = 1 THEN Stage1OutFile(dup_align_bam)
                            ELSE Stage2OutFile(dup_align_bam)))
    /\ (pc = "failed" /\ exc = "GatkError" /\ stage = 1 /\ ~pre1.existed) =>
          ~Exists(fs, Out1)
    /\ (pc = "failed" /\ exc = "GatkError" /\ stage = 2 /\ ~pre2.existed) =>
          ~Exists(fs, Out2)

\* The toolkit failed in Stage 2, after failing in Stage 1 in an earlier run.
C2_Witness ==
    /\ pc = "failed" /\ exc = "GatkError" /\ stage = 2 /\ ~pre2.existed
    /\ runs >= 2 /\ gatk_ok[1] = 1 /\ pre1.existed

\* The complete results of the stages.
Complete1(content) == content \in ToolkitTables \cup {<<NoAlignedReadsLine>>}
Complete2(content) == content \in {RecalContent, fs[PathStr(DupBam)]}

\* C3: in every state, terminated runs included, each declared output path is
\* absent or holds the complete result.
C3_NoPartialTarget ==
    /\ Exists(fs, Out1) => Complete1(fs[Out1])
    /\ Exists(fs, Out2) => Complete2(fs[Out2])

\* A toolkit invocation or a copy is started by this step.
NewCall(s) == Len(calls') > Len(calls) /\ calls'[Len(calls')].stage = s
NewCopy == Len(trace') > Len(trace) /\ trace'[Len(trace')].ev = "copy"

C5_ZeroReadsFallback ==
    (pre1.called /\ ~pre1.existed /\ Sum(bam.idxstats) = 0) =>
        /\ StageCalls(1) = {}
        /\ StageEvents(1) \cap {"_get_downsample_pct", "run_gatk", "curdir_tmpdir",
                                "file_transaction"} = {}
        /\ recal_file # NoPath =>
              /\ recal_file = Stage1OutFile(dup_align_bam)
              /\ Exists(fs, Out1)
              /\ fs[Out1] = <<NoAlignedReadsLine>>

\* Stage 1 has written the marker table and returned.
C5_Witness ==
    /\ pre1.called /\ ~pre1.existed /\ Sum(bam.idxstats) = 0
    /\ recal_file # NoPath
    /\ "write" \in StageEvents(1)

\* C6: Stage 2 invoked without its output does what the probe decides: on
\* "usable" one toolkit PrintReads invocation and no copy, on "not usable" the
\* copy of its input and no toolkit invocation; the path it returns is the
\* name derived from its input.
C6_Stage2Branch ==
    (pre2.called /\ ~pre2.existed) =>
        /\ usable = "True" => "copy" \notin StageEvents(2)
        /\ usable = "False" => StageCalls(2) = {}
        /\ usable \notin {"True", "False"} =>
              StageCalls(2) = {} /\ "copy" \notin StageEvents(2)
        /\ recal_bam # NoPath =>
              /\ recal_bam = Stage2OutFile(dup_align_bam)
              /\ \/ /\ usable = "True"
                    /\ Cardinality(StageCalls(2)) = 1
                    /\ \A i \in StageCalls(2) :
                          ArgAfter(calls[i].params, "-T") = "PrintReads"
                 \/ /\ usable = "False"
                    /\ "copy" \in StageEvents(2)
                    /\ fs[Out2] = fs[PathStr(dup_align_bam)]

\* Stage 2 has copied its input after the probe answered "not usable".
C6_Witness ==
    /\ pre2.called /\ ~pre2.existed
    /\ recal_bam # NoPath /\ usable = "False"
    /\ fs[Out2] = fs[PathStr(dup_align_bam)]

\* Stage 2 has invoked the toolkit after the probe answered "usable".
C6_WitnessToolkit ==
    /\ pre2.called /\ ~pre2.existed
    /\ recal_bam # NoPath /\ usable = "True"

\* C7: a first run on an input without aligned reads, the collaborators all
\* succeeding, ends in the terminal state: marker table, "not usable", copy,
\* index-output, the recalibrated path returned, no toolkit invocation, no
\* error raised.
C7_DegenerateRunCompletes ==
    (runs = 1 /\ Sum(bam.idxstats) = 0) =>
        /\ pc = "failed" => exc = "PicardError"
        /\ pc = "done" =>
              /\ fs[Out1] = <<NoAlignedReadsLine>>
              /\ usable = "False"
              /\ fs[Out2] = fs[PathStr(dup_align_bam)]
              /\ result = Stage2OutFile(dup_align_bam)
              /\ calls = <<>>

\* The table handed to the probe, its lines by kind, and the number of
\* comment lines it starts with.
Table == fs[PathStr(recal_file)]
IsComment(line) == StartsWith(line, <<"#">>)
IsEOF(line) == StartsWith(line, <<"E", "O", "F">>)
LeadingComments ==
    CHOOSE k \in 0..Len(Table) :
        /\ \A i \in 1..k : IsComment(Table[i])
        /\ k < Len(Table) => ~IsComment(Table[k + 1])

TotalReads == Sum(bam.idxstats)
ReadGroups == Len(bam.header["RG"])

\* C9: with H = 50,000,000 * max(1, n), the estimator returns a fraction
\* exactly when T > H; the fraction f has f * T = H and 0 < f <= 1;
\* (4e7, 1) and (6e7, 2) give none and (2e8, 1) gives 1/4.
C9_DownsampleFraction ==
    (pc = "estimated" /\ "RG" \in DOMAIN bam.header) =>
        LET T == TotalReads
            H == 50000000 * (IF ReadGroups >= 1 THEN ReadGroups ELSE 1)
        IN /\ exc = ""
           /\ downsample_pct # <<>> <=> T > H
           /\ downsample_pct # <<>> =>
                 LET f == downsample_pct[1]
                 IN /\ T % f.den = 0
                    /\ f.num * (T \div f.den) = H
                    /\ 0 < f.num /\ f.num <= f.den
           /\ (T = 40000000 /\ ReadGroups = 1) => downsample_pct = <<>>
           /\ (T = 60000000 /\ ReadGroups = 2) => downsample_pct = <<>>
           /\ (T = 200000000 /\ ReadGroups = 1) =>
                 downsample_pct = <<[num |-> 1, den |-> 4]>>

\* The estimator has answered 1/4 for 2e8 reads in one read group.
C9_Witness ==
    /\ pc = "estimated" /\ "RG" \in DOMAIN bam.header
    /\ TotalReads = 200000000 /\ ReadGroups = 1
    /\ downsample_pct = <<[num |-> 1, den |-> 4]>>

\* The estimator has answered none at the threshold itself.
C9_WitnessThreshold ==
    /\ pc = "estimated" /\ "RG" \in DOMAIN bam.header
    /\ TotalReads = 100000000 /\ ReadGroups = 2
    /\ downsample_pct = <<>>

\* The interval arguments of a toolkit invocation.
IntervalOf(params) == IF HasArg(params, "-L") THEN ArgAfter(params, "-L") ELSE None

\* C10: a toolkit invocation of either stage carries -L with the configured
\* interval, followed by --interval_set_rule INTERSECTION, exactly when the
\* configuration supplies an interval, and both stages of a run carry the
\* same interval.
C10_IntervalsBothStages ==
    /\ \A i \in 1..Len(calls) :
          LET params == calls[i].params
          IN /\ HasArg(params, "-L") <=> config.variant_regions # None
             /\ HasArg(params, "--interval_set_rule") <=> HasArg(params, "-L")
             /\ HasArg(params, "-L") =>
                   \E j \in 1..(Len(params) - 3) :
                      /\ params[j] = "-L"
                      /\ params[j + 1] = config.variant_regions
                      /\ params[j + 2] = "--interval_set_rule"
                      /\ params[j + 3] = "INTERSECTION"
    /\ \A i, j \in 1..Len(calls) :
          IntervalOf(calls[i].params) = IntervalOf(calls[j].params)

\* Both stages have invoked the toolkit in one run, with an interval.
C10_Witness ==
    /\ StageCalls(1) # {} /\ StageCalls(2) # {}
    /\ \A i \in 1..Len(calls) : IntervalOf(calls[i].params) = "regions.bed"

\* The place of a call in the declared sequence of a run: index-reference,
\* mark-duplicates, index-alignment, Stage 1, Stage 2, index-output.
StepRank(e) ==
    CASE e.stage = 1 -> 4
      [] e.stage = 2 -> 5
      [] e.stage = 0 /\ e.ev = "picard_index_ref" -> 1
      [] e.stage = 0 /\ e.ev = "picard_mark_duplicates" -> 2
      [] e.stage = 0 /\ e.ev = "picard_index" /\ e.arg = PathStr(dup_align_bam) -> 3
      [] OTHER -> 6
Ranks == { StepRank(trace[i]) : i \in 1..Len(trace) }

\* C11: the calls of a run occur in the order index-reference, mark-duplicates
\* (only when enabled), index-alignment, Stage 1, Stage 2, index-output, each
\* after the one before it has returned; Stage 2 is given the path Stage 1
\* returned; index-output is given the path Stage 2 returned, which the driver
\* returns.
C11_StageOrder ==
    /\ \A i, j \in 1..Len(trace) :
          /\ i < j => StepRank(trace[i]) <= StepRank(trace[j])
          /\ (i < j /\ trace[i].stage = 0) => StepRank(trace[i]) < StepRank(trace[j])
    /\ \A r \in Ranks :
          /\ r >= 2 => 1 \in Ranks
          /\ r >= 3 => (2 \in Ranks <=> config.mark_duplicates # "False")
          /\ r >= 4 => 3 \in Ranks
          /\ r >= 5 => 4 \in Ranks /\ recal_file = Stage1OutFile(dup_align_bam)
          /\ r >= 6 => 5 \in Ranks /\ recal_bam = Stage2OutFile(dup_align_bam)
    /\ \A i \in 1..Len(trace) :
          /\ (trace[i].stage = 2 /\ trace[i].ev = "_recal_available") =>
                trace[i].arg = PathStr(recal_file)
          /\ StepRank(trace[i]) = 6 =>
                trace[i].ev = "picard_index" /\ trace[i].arg = PathStr(recal_bam)
    /\ \A i \in StageCalls(2) : ArgAfter(calls[i].params, "-BQSR") = PathStr(recal_file)
    /\ pc = "done" =>
          /\ result = recal_bam
          /\ Ranks = (IF config.mark_duplicates # "False" THEN {2} ELSE {})
                     \cup {1, 3, 4, 5, 6}
    /\ pc # "done" => result = NoPath

\* A run with duplicate marking has completed, both stages calling the toolkit.
C11_Witness ==
    /\ pc = "done" /\ config.mark_duplicates = "True"
    /\ StageCalls(1) # {} /\ StageCalls(2) # {}
    /\ result = Stage2OutFile(MarkedBam(align_bam))

\* C12: a failed toolkit invocation travels out of the stage and the driver:
\* nothing but the unwinding of the stage follows it, no later step of the run
\* executes, the driver returns no path, and the output of a stage completed
\* before stays present and unchanged.
C12_FailStop ==
    /\ [](exc = "GatkError" =>
             /\ pc \in {"s1_tx_exit", "s1_tmp_exit", "s2_tx_exit", "s2_tmp_exit", "failed"}
             /\ result = NoPath
             /\ 6 \notin Ranks
             /\ stage \in {1, 2}
             /\ stage = 1 =>
                   /\ recal_file = NoPath /\ recal_bam = NoPath
                   /\ 5 \notin Ranks
                   /\ StageCalls(2) = {}
             /\ stage = 2 =>
                   /\ recal_bam = NoPath
                   /\ Exists(fs, Out1) /\ Complete1(fs[Out1])
                   /\ pre1.existed => fs[Out1] = pre1.content)
    /\ [][(exc = "GatkError" /\ exc' = "GatkError") =>
             /\ Len(calls') = Len(calls)
             /\ (Exists(fs, Out1) => Exists(fs', Out1) /\ fs'[Out1] = fs[Out1])
             /\ (pc = "failed" => pc' = "failed")]_vars

\* The toolkit failed in Stage 2 of a run whose Stage 1 had built the table.
C12_Witness ==
    /\ pc = "failed" /\ exc = "GatkError" /\ stage = 2
    /\ ~pre1.existed /\ StageCalls(1) # {}
    /\ Exists(fs, Out1)

\* C13: with duplicate marking disabled the marking collaborator is never
\* called and index-alignment, Stage 1 and Stage 2 work on the original file;
\* with it enabled, or the setting absent, they work on the file the marking
\* collaborator returned.
C13_DuplicateToggle ==
    LET marked == \E i \in 1..Len(trace) : trace[i].ev = "picard_mark_duplicates"
        root == IF config.mark_duplicates = "False" THEN "sample" ELSE "sample-dup"
    IN /\ config.mark_duplicates = "False" => ~marked
       /\ (config.mark_duplicates # "False" /\ 3 \in Ranks) => marked
       /\ dup_align_bam # NoPath => PathStr(dup_align_bam) = root \o ".bam"
       /\ \A i \in 1..Len(trace) :
             /\ StepRank(trace[i]) = 3 => trace[i].arg = root \o ".bam"
             /\ (trace[i].stage = 1 /\ trace[i].ev = "file_exists") =>
                   trace[i].arg = root \o ".grp"
             /\ (trace[i].stage = 1 /\ trace[i].ev = "has_aligned_reads") =>
                   trace[i].arg = root \o ".bam"
             /\ (trace[i].stage = 2 /\ trace[i].ev = "file_exists") =>
                   trace[i].arg = root \o "-gatkrecal.bam"
       /\ \A i \in 1..Len(calls) : ArgAfter(calls[i].params, "-I") = root \o ".bam"
       /\ recal_file # NoPath => PathStr(recal_file) = root \o ".grp"
       /\ recal_bam # NoPath => PathStr(recal_bam) = root \o "-gatkrecal.bam"

\* A run without the setting has completed on the marked file.
C13_Witness ==
    /\ config.mark_duplicates = Absent /\ pc = "done"
    /\ PathStr(result) = "sample-dup-gatkrecal.bam"
    /\ StageCalls(2) # {}

\* A run with duplicate marking disabled has completed on the original file.
C13_WitnessDisabled ==
    /\ config.mark_duplicates = "False" /\ pc = "done"
    /\ PathStr(result) = "sample-gatkrecal.bam"

\* C14: on an existing table of comment lines only (the marker table Stage 1
\* writes among them), and on an existing empty table, the probe returns
\* false and raises nothing.
C14_ProbeTotalOnContentFree ==
    (/\ pc = "probed"
     /\ Exists(fs, PathStr(recal_file))
     /\ \A i \in 1..Len(Table) : IsComment(Table[i])) =>
        usable = "False"

\* C15: when the header declares no read-group section, or no read group,
\* the estimator completes without error and takes the count as 1, that is,
\* the threshold as 50,000,000.
C15_UnknownReadGroupsAsOne ==
    (/\ pc = "estimated"
     /\ ("RG" \notin DOMAIN bam.header \/ ReadGroups = 0)) =>
        /\ exc = ""
        /\ downsample_pct # <<>> <=> TotalReads > 50000000

\* C16: a Stage 1 toolkit invocation carries the downsample-fraction argument
\* exactly when the estimator returned a fraction, the argument's value is
\* that fraction, and the ALL_READS downsampling mode is present exactly when
\* the fraction argument is.
C16_DownsampleDirectivesPaired ==
    \A i \in StageCalls(1) :
        LET params == calls[i].params
        IN /\ HasArg(params, "--downsample_to_fraction") <=> downsample_pct # <<>>
           /\ HasArg(params, "--downsample_to_fraction") =>
                 ArgAfter(params, "--downsample_to_fraction") = FractionStr(downsample_pct)
           /\ HasArg(params, "--downsampling_type") <=>
                 HasArg(params, "--downsample_to_fraction")
           /\ HasArg(params, "--downsampling_type") =>
                 ArgAfter(params, "--downsampling_type") = "ALL_READS"
           /\ ~\E j \in 1..Len(params) :
                 params[j] = "ALL_READS" /\ (j = 1 \/ params[j - 1] # "--downsampling_type")

\* A Stage 1 invocation that downsamples.
C16_Witness ==
    \E i \in StageCalls(1) :
        /\ HasArg(calls[i].params, "--downsample_to_fraction")
        /\ HasArg(calls[i].params, "--downsampling_type")
        /\ downsample_pct # <<>>

\* A Stage 1 invocation that does not downsample.
C16_WitnessNone ==
    \E i \in StageCalls(1) :
        /\ ~HasArg(calls[i].params, "--downsample_to_fraction")
        /\ downsample_pct = <<>>
        /\ TotalReads > 0

\* Where a run is while a stage's temporary directory, and its transaction,
\* are open.
TmpScope ==
    {"s1_tx", "s1_downsample", "s1_gatk", "s1_gatk_run", "s1_tx_exit", "s1_tmp_exit",
     "s2_tx", "s2_gatk", "s2_gatk_run", "s2_tx_exit", "s2_tmp_exit"}
TxScope(s) ==
    IF s = 1 THEN {"s1_downsample", "s1_gatk", "s1_gatk_run", "s1_tx_exit"}
    ELSE {"s2_gatk", "s2_gatk_run", "s2_tx_exit"}

\* The positions of a stage's events of the given kinds in the run's trace.
EventsAt(s, evs) == { i \in 1..Len(trace) : trace[i].stage = s /\ trace[i].ev \in evs }

\* C17: in both stages the temporary directory is acquired before the output
\* transaction opens, and is discarded after the transaction has closed by a
\* commit or a rollback; it exists only while the toolkit branch is inside
\* its scope, so nothing of it, and no transaction temp file, remains once
\* the stage has returned or raised (toolkit success, toolkit failure,
\* estimator failure).
C17_TmpdirLifetime ==
    /\ Exists(fs, TmpDir) <=> pc \in TmpScope
    /\ \A s \in {1, 2} :
          /\ \A i \in EventsAt(s, {"file_transaction"}) :
                \E j \in EventsAt(s, {"curdir_tmpdir"}) : j < i
          /\ \A i \in EventsAt(s, {"commit", "rollback"}) :
                \E j \in EventsAt(s, {"file_transaction"}) : j < i
          /\ \A i \in EventsAt(s, {"rmtree"}) :
                \E j \in EventsAt(s, {"commit", "rollback"}) : j < i
          /\ (EventsAt(s, {"curdir_tmpdir"}) # {} /\ pc \notin TmpScope) =>
                EventsAt(s, {"rmtree"}) # {}
          /\ EventsAt(s, {"_get_downsample_pct", "run_gatk"}) # {} =>
                EventsAt(s, {"file_transaction"}) # {}
    /\ \A p \in {Stage1OutFile(DupBam), Stage2OutFile(DupBam)} :
          Exists(fs, PathStr(TxFile(p))) =>
             pc \in TxScope(1) \cup TxScope(2)

\* Stage 1 has raised because the estimator failed, after the rollback and
\* the removal of the temporary directory.
C17_Witness ==
    /\ pc = "failed"
    /\ exc = "KeyError"
    /\ EventsAt(1, {"_get_downsample_pct"}) # {}
    /\ EventsAt(1, {"run_gatk"}) = {}
    /\ EventsAt(1, {"rollback"}) # {}
    /\ EventsAt(1, {"rmtree"}) # {}
    /\ ~Exists(fs, TmpDir)

\* Stage 2 has left its toolkit branch after a toolkit failure, and Stage 2
\* has returned after a toolkit success.
C17_WitnessToolkitFailure ==
    /\ pc = "failed"
    /\ exc = "GatkError"
    /\ EventsAt(2, {"rollback"}) # {}
    /\ EventsAt(2, {"rmtree"}) # {}
    /\ ~Exists(fs, TmpDir)
C17_WitnessToolkitSuccess ==
    /\ pc = "done"
    /\ EventsAt(1, {"commit"}) # {}
    /\ EventsAt(2, {"commit"}) # {}
    /\ EventsAt(2, {"rmtree"}) # {}
    /\ ~Exists(fs, TmpDir)

\* The arguments that name a file the toolkit writes.
WriteKeys == {"-o", "--out", "--plot_pdf_file"}
DeclaredOutput(s) == IF s = 1 THEN Stage1OutFile(DupBam) ELSE Stage2OutFile(DupBam)

\* The files of the driver's input and of its collaborators, and the
\* transient ones.
InputPaths == {PathStr(align_bam), PathStr(ref_file), PathStr(MarkedBam(align_bam))}
TransientPaths ==
    {TmpDir, PathStr(TxFile(DeclaredOutput(1))), PathStr(TxFile(DeclaredOutput(2)))}

\* C18: every path a stage hands to the toolkit for writing is the temporary
\* path of the stage's transaction; the only persistent paths the stages
\* write are the two declared outputs, so a failed Stage 1 leaves nothing
\* behind; the input alignment file, the reference and the duplicate-marked
\* file are never written by a stage.
C18_SingleDeclaredOutput ==
    /\ \A i \in 1..Len(calls) :
          LET params == calls[i].params
          IN \A j \in 1..(Len(params) - 1) :
                params[j] \in WriteKeys =>
                   params[j + 1] = PathStr(TxFile(DeclaredOutput(calls[i].stage)))
    /\ DOMAIN fs \subseteq InputPaths \cup TransientPaths \cup {Out1, Out2}
    /\ (pc = "failed" /\ stage = 1 /\ pre1.called /\ ~pre1.existed) =>
          DOMAIN fs \subseteq InputPaths
    /\ fs[PathStr(align_bam)] = AlignContent
    /\ fs[PathStr(ref_file)] = <<>>
    /\ Exists(fs, PathStr(MarkedBam(align_bam))) =>
          fs[PathStr(MarkedBam(align_bam))] = MarkedContent

\* The same with the quality plot left aside: nothing else breaks it.
C18_ApartFromPlot ==
    LET plot == PathStr(PlotFile(DupBam))
    IN /\ \A i \in 1..Len(calls) :
             LET params == calls[i].params
             IN \A j \in 1..(Len(params) - 1) :
                   params[j] \in WriteKeys \ {"--plot_pdf_file"} =>
                      params[j + 1] = PathStr(TxFile(DeclaredOutput(calls[i].stage)))
       /\ DOMAIN fs \subseteq InputPaths \cup TransientPaths \cup {Out1, Out2, plot}
       /\ (pc = "failed" /\ stage = 1 /\ pre1.called /\ ~pre1.existed) =>
             DOMAIN fs \subseteq InputPaths \cup {plot}
       /\ fs[PathStr(align_bam)] = AlignContent
       /\ fs[PathStr(ref_file)] = <<>>
       /\ Exists(fs, PathStr(MarkedBam(align_bam))) =>
             fs[PathStr(MarkedBam(align_bam))] = MarkedContent

\* C19: when runs on the same input are repeated after failed and terminated
\* runs, a run that reaches the terminal state finds the covariate table and
\* the recalibrated alignment file both present and complete, the latter a
\* full toolkit rewrite or a full copy of its input.
C19_RecoveredRunComplete ==
    pc = "done" =>
        /\ Exists(fs, Out1)
        /\ Complete1(fs[Out1])
        /\ Exists(fs, Out2)
        /\ Complete2(fs[Out2])

\* What a run does, in order, when it finds both outputs.
SkipTrace ==
    <<Ev(0, "picard_index_ref", PathStr(ref_file))>>
    \o (IF config.mark_duplicates # "False"
        THEN <<Ev(0, "picard_mark_duplicates", PathStr(align_bam))>>
        ELSE <<>>)
    \o <<Ev(0, "picard_index", PathStr(DupBam)),
         Ev(1, "file_exists", Out1),
         Ev(2, "file_exists", Out2),
         Ev(0, "picard_index", Out2)>>

\* C20: a run that finds both the covariate table and the recalibrated file
\* still calls index-reference, mark-duplicates (when enabled), index-alignment
\* and index-output, in that order and once each, invokes no toolkit, runs
\* neither the probe nor the estimator, and returns the existing
\* recalibrated path.
C20_NoDriverShortCircuit ==
    (pre1.called /\ pre1.existed /\ pre2.called /\ pre2.existed) =>
        /\ calls = <<>>
        /\ usable = "" /\ downsample_pct = <<>>
        /\ {"_recal_available", "_get_downsample_pct", "run_gatk", "copy", "write"}
              \cap (StageEvents(1) \cup StageEvents(2)) = {}
        /\ pc \in {"index_out", "done", "failed"}
        /\ pc = "index_out" => trace = SubSeq(SkipTrace, 1, Len(SkipTrace) - 1)
        /\ pc \in {"done", "failed"} => trace = SkipTrace
        /\ pc = "done" =>
              /\ result = Stage2OutFile(DupBam)
              /\ Exists(fs, Out2) /\ fs[Out2] = pre2.content

\* A later run with duplicate marking enabled has found both outputs and has
\* returned after its four collaborator calls.
C20_Witness ==
    /\ runs >= 2
    /\ pc = "done"
    /\ pre1.existed /\ pre2.existed
    /\ config.mark_duplicates # "False"
    /\ Len(trace) = 6
    /\ trace[2].ev = "picard_mark_duplicates"
    /\ trace[6] = Ev(0, "picard_index", Out2)
    /\ calls = <<>>

====
